---- MODULE Spec2Model ----
(***************************************************************************)
(* Model of the dynamic-object detection pipeline of the LIDAR editor      *)
(* (src/src/dynamic_object_detector.py, class DynamicObjectDetector), of   *)
(* the window that runs it in a worker thread (src/src/main_gui.py) and of *)
(* the editing calls of the 3D view (src/src/visualizer.py).               *)
(*                                                                         *)
(* Units.  All lengths are integers in decimetres (0.1 m), so the default  *)
(* height_threshold 0.2 m is 2, cluster_eps 0.5 m is 5, the vehicle ranges *)
(* (0.5,3.0) (1.0,3.0) (2.0,8.0) are (5,30) (10,30) (20,80) and the 4.0 m  *)
(* tall-object limit is 40.  Densities are kept as the integer comparison  *)
(* that the floating-point comparison amounts to on this grid.             *)
(*                                                                         *)
(* Indices.  A point array is a sequence; position i of the sequence is    *)
(* Python index i-1, so the index range 0..N-1 of the code is 1..N here.   *)
(* An index array (np.where output, a cluster, dynamic_indices, ...) is a  *)
(* sequence of such positions, so that duplicates remain visible.          *)
(***************************************************************************)
EXTENDS Integers, Sequences, FiniteSets, TLC

VARIABLES
    point_cloud,        \* self.point_cloud: NoCloud or Cloud(points)
    ground_plane,       \* self.ground_plane: NoPlane or <<a, b, c, d>>
    detection_params,   \* self.detection_params
    stage,              \* position of the running detect_dynamic_objects call
    points,             \* local `points` of detect_dynamic_objects
    above_ground_indices,
    ground_indices,
    clusters,           \* local `clusters` (list of index arrays)
    dynamic_clusters,
    static_clusters,
    result,             \* the DetectionResult returned, NoResult before that
    \* MainWindow (src/src/main_gui.py)
    window_open,        \* FALSE once closeEvent has run
    loader_cloud,       \* self.loader.point_cloud: NoCloud or Cloud(points)
    file_loaded_pending,\* on_file_loaded is scheduled and has not run yet
    detection_worker,   \* self.detection_worker: "None", "Running",
                        \* "Finished" or "Terminated"
    workers_running,    \* number of DetectionWorker threads that are running
    signals,            \* detection_completed / error_occurred emitted by
                        \* the worker self.detection_worker refers to
    status_message,     \* the last status-bar message or message box
    \* InteractiveVisualizer (src/src/visualizer.py)
    viz_point_cloud,    \* self.point_cloud: NoVizCloud or VizCloud(points, colors)
    original_colors,    \* self.original_colors
    selected_indices,   \* self.selected_indices (a set)
    callbacks,          \* self.callbacks['points_deleted']
    callback_log,       \* the callback invocations of the last key handler
    last_call           \* the last visualizer call: name, arguments, return

detectorVars == <<point_cloud, ground_plane, detection_params, stage, points,
                  above_ground_indices, ground_indices, clusters,
                  dynamic_clusters, static_clusters, result>>

guiVars == <<window_open, loader_cloud, file_loaded_pending, detection_worker,
             workers_running, signals, status_message>>

vizVars == <<viz_point_cloud, original_colors, selected_indices, callbacks,
             callback_log, last_call>>

vars == <<detectorVars, guiVars, vizVars>>

\* Python's None, in the shape of the value it stands in for.
NoCloud == [is_none |-> TRUE, points |-> <<>>]

NoPlane == <<>>

NoResult == [method_used |-> "None"]

\* An open3d point cloud holding the points pts.
Cloud(pts) == [is_none |-> FALSE, points |-> pts]

(***************************************************************************)
(* Small helpers over sets and sequences.                                  *)
(***************************************************************************)
Range(s) == {s[i] : i \in DOMAIN s}

SetMin(S) == CHOOSE m \in S : \A x \in S : m <= x

SetMax(S) == CHOOSE m \in S : \A x \in S : m >= x

Sq(x) == x * x

RECURSIVE SortedSeq(_)
\* The ascending sequence of a finite set of integers: the order in which
\* np.where and boolean-mask indexing list the selected positions.
SortedSeq(S) ==
    IF S = {} THEN <<>>
    ELSE LET m == SetMin(S) IN <<m>> \o SortedSeq(S \ {m})

RECURSIVE Concatenate(_)
\* np.concatenate of a list of index arrays.
Concatenate(arrays) ==
    IF arrays = <<>> THEN <<>>
    ELSE Head(arrays) \o Concatenate(Tail(arrays))

\* s[mask]: the elements of the index array s at the positions in `mask`,
\* in their order in s.
MaskSelect(s, mask) == [k \in 1..Cardinality(mask) |-> s[SortedSeq(mask)[k]]]

HasDuplicates(s) == \E i, j \in DOMAIN s : i # j /\ s[i] = s[j]

Rep(p, k) == [i \in 1..k |-> p]

(***************************************************************************)
(* Parameters (DynamicObjectDetector.__init__) and the bundles the         *)
(* parameter panel can send.                                               *)
(***************************************************************************)
DefaultParams ==
    [ height_threshold     |-> 2,
      cluster_eps          |-> 5,
      cluster_min_samples  |-> 10,
      vehicle_height_range |-> <<5, 30>>,
      vehicle_width_range  |-> <<10, 30>>,
      vehicle_length_range |-> <<20, 80>>,
      density_threshold    |-> 1 ]     \* in tenths of a point per m^3

\* ParameterPanel.get_parameters: the four keys the panel owns, within the
\* ranges of its spin boxes (eps 0.1..2.0 m, min_samples 5..100, ...).
PanelParameters ==
    { [ height_threshold |-> 2, cluster_eps |-> 5,  cluster_min_samples |-> 10,
        vehicle_height_range |-> <<5, 30>> ],
      [ height_threshold |-> 2, cluster_eps |-> 20, cluster_min_samples |-> 5,
        vehicle_height_range |-> <<5, 30>> ],
      [ height_threshold |-> 10, cluster_eps |-> 20, cluster_min_samples |-> 5,
        vehicle_height_range |-> <<10, 50>> ] }

\* dict.update: the keys of `upd` replace those of `params`, the rest stay.
DictUpdate(params, upd) ==
    [k \in DOMAIN params |-> IF k \in DOMAIN upd THEN upd[k] ELSE params[k]]

(***************************************************************************)
(* Point sets the loader can hand to set_point_cloud.  Each is a sequence  *)
(* of <<x, y, z>> in decimetres.  Ground(k) is k returns from each of      *)
(* three places of a flat ground at z = 0.                                 *)
(***************************************************************************)
Ground(k) == Rep(<<0, 0, 0>>, k) \o Rep(<<100, 10, 0>>, k) \o Rep(<<10, 100, 0>>, k)

\* A flat ground at z = 0.4 m, one return exactly height_threshold (0.2 m)
\* above it and one 0.3 m above it.
SceneGround ==
    [i \in 1..6 |-> <<Ground(2)[i][1], Ground(2)[i][2], 4>>]
        \o << <<50, 50, 6>>, <<50, 50, 7>> >>

\* Ground, and one isolated return 5 m above it.
SceneNoise == Ground(2) \o << <<50, 50, 50>> >>

\* A point cloud object that holds no point.
SceneEmpty == <<>>

\* Two points only: fewer than RANSAC's sample of three.
SceneTwo == << <<0, 0, 0>>, <<0, 0, 30>> >>

\* Ground, and a row of nine returns 1 m above it: two dense ends that
\* share the middle return (x = 60) as a border point.
SceneBorder ==
    Ground(5) \o
    [i \in 1..9 |-> << 60 + <<-40, -35, -30, -20, 0, 20, 30, 35, 40>>[i], 50, 10 >>]

\* Ground, and twelve returns on the edges of a 4.0 x 2.0 x 1.5 m box.
SceneVehicle ==
    Ground(4) \o
    [i \in 1..12 |-> << 30 + 20 * ((i - 1) \div 4),
                        30 + 20 * (((i - 1) \div 2) % 2),
                        10 + 15 * ((i - 1) % 2) >>]

\* Ground, and twelve returns on the edges of a 4.0 x 2.0 x 0.8 m box that
\* hangs 0.3 m above the ground.
SceneVan ==
    Ground(4) \o
    [i \in 1..12 |-> << 30 + 20 * ((i - 1) \div 4),
                        30 + 20 * (((i - 1) \div 2) % 2),
                        3 + 8 * ((i - 1) % 2) >>]

\* Ground, and 34 returns of a pole: 17 at 1.0 m, the others at 3.5 m and
\* 5.5 m, in the order given.  More above-ground points than
\* LargeDatasetThreshold.
SceneOverlap ==
    Ground(18) \o Rep(<<50, 50, 10>>, 17) \o
    [i \in 1..17 |-> << 50, 50,
        <<35, 35, 35, 35, 55, 35, 35, 35, 35, 35, 35, 35, 35, 35, 35, 55, 55>>[i] >>]

\* Ground, and 34 returns of a pole: 17 at 1.0 m and 17 at 3.5 m.
SceneTwin ==
    Ground(18) \o Rep(<<50, 50, 10>>, 17) \o Rep(<<50, 50, 35>>, 17)

Scenes ==
    {SceneEmpty, SceneGround, SceneNoise, SceneTwo, SceneBorder, SceneVehicle,
     SceneVan, SceneOverlap, SceneTwin}

(***************************************************************************)
(* detect_ground_plane: open3d's segment_plane(distance_threshold = 0.1,   *)
(* ransac_n = 3, num_iterations = 1000).  RANSAC keeps the candidate with  *)
(* the most inliers; the candidates are the planes of PlaneModels.  With   *)
(* fewer than ransac_n points the call raises.                             *)
(***************************************************************************)
PlaneModels == { <<0, 0, 1, 0>>, <<0, 0, 2, -8>>, <<1, 0, 0, 0>> }

PlaneValue(plane, p) == plane[1] * p[1] + plane[2] * p[2] + plane[3] * p[3] + plane[4]

PlaneNormSq(plane) == Sq(plane[1]) + Sq(plane[2]) + Sq(plane[3])

\* |ax+by+cz+d| / sqrt(a^2+b^2+c^2) > threshold.  With a zero normal the
\* quotient is nan (0/0, never greater) or inf (always greater).
DistanceAbove(plane, p, threshold) ==
    IF PlaneNormSq(plane) = 0
    THEN PlaneValue(plane, p) # 0
    ELSE Sq(PlaneValue(plane, p)) > Sq(threshold) * PlaneNormSq(plane)

Inliers(plane, cloud) == {i \in DOMAIN cloud : ~DistanceAbove(plane, cloud[i], 1)}

\* The outcome "segment_plane raised".
SegmentPlaneRaises == <<>>

SegmentPlaneOutcomes(cloud) ==
    IF Len(cloud) < 3 THEN {SegmentPlaneRaises}
    ELSE {pl \in PlaneModels :
            \A other \in PlaneModels :
                Cardinality(Inliers(pl, cloud)) >= Cardinality(Inliers(other, cloud))}

(***************************************************************************)
(* filter_by_height.                                                       *)
(***************************************************************************)
\* The k-th smallest element (k = 1..Len) of a sequence of integers.
KthSmallest(s, k) ==
    SetMin({v \in Range(s) : Cardinality({i \in DOMAIN s : s[i] <= v}) >= k})

\* 10 * np.percentile(z, 10): linear interpolation between the order
\* statistics around position 0.1 * (n - 1).
Percentile10Times10(z) ==
    LET n  == Len(z)
        lo == ((n - 1) \div 10) + 1
        r  == (n - 1) % 10
    IN  IF r = 0 THEN 10 * KthSmallest(z, lo)
        ELSE 10 * KthSmallest(z, lo)
             + r * (KthSmallest(z, lo + 1) - KthSmallest(z, lo))

\* The boolean array `above_ground`, as the set of positions where it holds.
AboveGroundMask(pts, plane, params) ==
    IF plane = NoPlane
    THEN LET z == [i \in DOMAIN pts |-> pts[i][3]]
         IN  {i \in DOMAIN pts :
                10 * z[i] > Percentile10Times10(z) + 10 * params.height_threshold}
    ELSE {i \in DOMAIN pts : DistanceAbove(plane, pts[i], params.height_threshold)}

\* Variant: the negation of the mask is lost.
GroundWhere_NotNegated(pts, mask) == SortedSeq({i \in DOMAIN pts : i \in mask})

\* np.where(~above_ground)[0]
GroundWhere(pts, mask) == SortedSeq({i \in DOMAIN pts : ~(i \in mask)})

FilterByHeight(pts, plane, params) ==
    LET mask == AboveGroundMask(pts, plane, params)
    IN  [above |-> SortedSeq(mask), ground |-> GroundWhere(pts, mask)]

\* The outcome "np.percentile raised".
PercentileRaises == [above |-> <<0>>, ground |-> <<0>>]

\* What a filter_by_height call can do.  np.percentile of an empty array
\* is nan in some numpy releases (every comparison with it is false, so
\* both index arrays are empty) and an IndexError in others; the code does
\* not test for an empty array before the call.
FilterByHeightOutcomes(pts, plane, params) ==
    IF pts = <<>> /\ plane = NoPlane
    THEN {FilterByHeight(pts, plane, params), PercentileRaises}
    ELSE {FilterByHeight(pts, plane, params)}

(***************************************************************************)
(* sklearn.cluster.DBSCAN(eps, min_samples).fit(pts).labels_, as the list  *)
(* of clusters in label order, each the set of positions of its points.    *)
(* A point is a core point when at least min_samples points (itself        *)
(* included) lie within eps.  Points are visited in index order; an        *)
(* unlabelled core point starts the next label, which spreads through core *)
(* points to every still unlabelled neighbour.  A border point therefore   *)
(* keeps the label that reached it first.  Unlabelled points are noise.    *)
(***************************************************************************)
DistSq(p, q) == Sq(p[1] - q[1]) + Sq(p[2] - q[2]) + Sq(p[3] - q[3])

Neighbours(pts, i, eps) == {j \in DOMAIN pts : DistSq(pts[i], pts[j]) <= Sq(eps)}

CorePoints(pts, eps, min_samples) ==
    {i \in DOMAIN pts : Cardinality(Neighbours(pts, i, eps)) >= min_samples}

RECURSIVE CoreClosure(_, _, _, _)
\* The core points reachable from the core points of S through core points.
CoreClosure(pts, eps, core, S) ==
    LET next == S \cup {j \in core : \E c \in S : j \in Neighbours(pts, c, eps)}
    IN  IF next = S THEN S ELSE CoreClosure(pts, eps, core, next)

\* The points that receive the label started at core point i.
LabelFrom(pts, eps, core, i, labelled) ==
    LET comp == CoreClosure(pts, eps, core, {i})
    IN  (comp \cup {j \in DOMAIN pts : \E c \in comp : j \in Neighbours(pts, c, eps)})
            \ labelled

RECURSIVE DbscanInner(_, _, _, _, _, _)
DbscanInner(pts, eps, core, i, labelled, acc) ==
    IF i > Len(pts) THEN acc
    ELSE IF i \in labelled \/ ~(i \in core)
         THEN DbscanInner(pts, eps, core, i + 1, labelled, acc)
         ELSE LET c == LabelFrom(pts, eps, core, i, labelled)
              IN  DbscanInner(pts, eps, core, i + 1, labelled \cup c, Append(acc, c))

DBSCAN(pts, eps, min_samples) ==
    DbscanInner(pts, eps, CorePoints(pts, eps, min_samples), 1, {}, <<>>)

(***************************************************************************)
(* cluster_points.  The candidate counts of the large-dataset path are     *)
(* scaled by 1/1000 (30000 -> 30, 20000 -> 20); the ratio 0.3, the floor 5 *)
(* of the relaxed min_samples and the radius factor 1.5 are the code's.    *)
(***************************************************************************)
LargeDatasetThreshold == 30

SampleCap == 20

MaxStride == 1

\* The candidate counts up to 200 for which the double n * (SampleCap / n)
\* is the double just below SampleCap: the quotient is rounded down and the
\* product does not round back up (at the code's scale, 20000 / n, the first
\* such counts are 66762, 66926, 67037).
CapProductRoundsDown == {77, 154}

\* int(n * min(0.3, SampleCap / n)) in double arithmetic: n * 0.3 truncates
\* to floor(3 n / 10) for every n of this range; above it the product is
\* SampleCap, or the double just below it, which int() truncates.
SampleSize(n) ==
    IF 3 * n <= 10 * SampleCap THEN (3 * n) \div 10
    ELSE IF n \in CapProductRoundsDown THEN SampleCap - 1 ELSE SampleCap

\* np.random.choice(n, k, replace=False): k distinct positions of 1..n in
\* some order.  The draws considered are the k positions starting anywhere
\* and stepping (cyclically) by a stride of at most MaxStride.
SampleDraws(n, k) ==
    {d \in {[j \in 1..k |-> ((o + s * (j - 1)) % n) + 1] :
                o \in 0..(n - 1), s \in 1..MaxStride} :
        Cardinality(Range(d)) = k}

\* max(5, cluster_min_samples // 2)
RelaxedMinSamples(params) ==
    IF params.cluster_min_samples \div 2 > 5
    THEN params.cluster_min_samples \div 2 ELSE 5

\* Positions of the candidates within 1.5 * eps of the mean of the sample
\* cluster `members` (positions in sample_points): with k members and S the
\* sum of their coordinates, |p - S/k| <= 1.5 eps  iff
\* 4 |k p - S|^2 <= 9 eps^2 k^2.
RECURSIVE SumCoord(_, _, _)
SumCoord(pts, S, axis) ==
    IF S = {} THEN 0
    ELSE LET i == CHOOSE x \in S : TRUE
         IN  pts[i][axis] + SumCoord(pts, S \ {i}, axis)

\* Variant: the radius is eps, without the factor 1.5.
WithinCluster_EpsRadius(cluster_pts, sample_points, members, eps) ==
    LET k == Cardinality(members)
        c == [a \in 1..3 |-> SumCoord(sample_points, members, a)]
    IN  {i \in DOMAIN cluster_pts :
            Sq(k * cluster_pts[i][1] - c[1]) + Sq(k * cluster_pts[i][2] - c[2])
              + Sq(k * cluster_pts[i][3] - c[3])
              <= Sq(eps) * Sq(k)}

WithinCluster(cluster_pts, sample_points, members, eps) ==
    LET k == Cardinality(members)
        c == [a \in 1..3 |-> SumCoord(sample_points, members, a)]
    IN  {i \in DOMAIN cluster_pts :
            4 * (Sq(k * cluster_pts[i][1] - c[1]) + Sq(k * cluster_pts[i][2] - c[2])
                 + Sq(k * cluster_pts[i][3] - c[3]))
              <= 9 * Sq(eps) * Sq(k)}

RECURSIVE ExpandSampleClusters(_, _, _, _, _)
\* The loop over the labels of the sample clustering (lines 147-163).
ExpandSampleClusters(cluster_pts, indices, sample_points, labels, params) ==
    IF labels = <<>> THEN <<>>
    ELSE LET within == WithinCluster(cluster_pts, sample_points, Head(labels),
                                     params.cluster_eps)
             rest   == ExpandSampleClusters(cluster_pts, indices, sample_points,
                                            Tail(labels), params)
         IN  IF Cardinality(within) >= params.cluster_min_samples
             THEN <<MaskSelect(indices, within)>> \o rest
             ELSE rest

SampledClusters(cluster_pts, indices, draw, params) ==
    LET sample_points == [j \in DOMAIN draw |-> cluster_pts[draw[j]]]
        labels == DBSCAN(sample_points, params.cluster_eps, RelaxedMinSamples(params))
    IN  ExpandSampleClusters(cluster_pts, indices, sample_points, labels, params)

ExactClusters(cluster_pts, indices, params) ==
    LET labels == DBSCAN(cluster_pts, params.cluster_eps, params.cluster_min_samples)
    IN  [l \in DOMAIN labels |-> MaskSelect(indices, labels[l])]

\* Variant: the sampled path is taken from the threshold on.
ClusterPoints_SampledAtThreshold(pts, indices, params) ==
    LET cluster_pts == [k \in DOMAIN indices |-> pts[indices[k]]]
        n == Len(indices)
    IN  IF n = 0 THEN {<<>>}
        ELSE IF n >= LargeDatasetThreshold
        THEN {SampledClusters(cluster_pts, indices, draw, params) :
                draw \in SampleDraws(n, SampleSize(n))}
        ELSE {ExactClusters(cluster_pts, indices, params)}

\* Every list of clusters cluster_points(points, indices) can return.
ClusterPoints(pts, indices, params) ==
    LET cluster_pts == [k \in DOMAIN indices |-> pts[indices[k]]]
        n == Len(indices)
    IN  IF n = 0 THEN {<<>>}
        ELSE IF n > LargeDatasetThreshold
        THEN {SampledClusters(cluster_pts, indices, draw, params) :
                draw \in SampleDraws(n, SampleSize(n))}
        ELSE {ExactClusters(cluster_pts, indices, params)}

(***************************************************************************)
(* analyze_cluster_geometry.                                               *)
(***************************************************************************)
\* max_bound - min_bound along one axis (1 = x, 2 = y, 3 = z).
Extent(pts, cluster_indices, axis) ==
    LET coords == {pts[cluster_indices[k]][axis] : k \in DOMAIN cluster_indices}
    IN  SetMax(coords) - SetMin(coords)

\* sorted(dimensions), ascending.
Sorted3(d) ==
    LET lo  == SetMin({d[1], d[2], d[3]})
        hi  == SetMax({d[1], d[2], d[3]})
    IN  <<lo, d[1] + d[2] + d[3] - lo - hi, hi>>

InRange(x, range) == range[1] <= x /\ x <= range[2]

\* Variant: the extents are read in axis order (z the height, y the width,
\* x the length), without sorting.
VehicleLike_AxisOrder(dimensions, params) ==
    /\ InRange(dimensions[3], params.vehicle_height_range)
    /\ InRange(dimensions[2], params.vehicle_width_range)
    /\ InRange(dimensions[1], params.vehicle_length_range)

VehicleLike(dimensions, params) ==
    LET s == Sorted3(dimensions)
    IN  /\ InRange(s[1], params.vehicle_height_range)
        /\ InRange(s[2], params.vehicle_width_range)
        /\ InRange(s[3], params.vehicle_length_range)

\* max(volume, 1e-6), the divisor of the density, in units of 1e-6 m^3
\* (`volume` is in dm^3 = 1000 such units).
DensityDivisor(volume) == IF volume >= 1 THEN 1000 * volume ELSE 1

\* geometry['density'] < density_threshold, where density is
\* num_points / max(volume, 1e-6) in points per m^3.  `volume` is in dm^3
\* (1 m^3 = 1000 dm^3) and `threshold` in tenths of a point per m^3; a
\* volume of 0 dm^3 is clamped to 1e-6 m^3:
\*   volume >= 1:  1000 n / volume < threshold / 10
\*   volume = 0:   n / 1e-6 < threshold / 10, that is 10^7 n < threshold,
\*                 written without the product (32-bit integers).
DensityBelow(num_points, volume, threshold) ==
    IF volume >= 1
    THEN 10000 * num_points < threshold * volume
    ELSE num_points <= (threshold - 1) \div 10000000

AnalyzeClusterGeometry(pts, cluster_indices, params) ==
    LET dimensions == [a \in 1..3 |-> Extent(pts, cluster_indices, a)]
        volume     == dimensions[1] * dimensions[2] * dimensions[3]
    IN  [ dimensions   |-> dimensions,
          volume       |-> volume,
          num_points   |-> Len(cluster_indices),
          sparse       |-> DensityBelow(Len(cluster_indices), volume,
                                        params.density_threshold),
          vehicle_like |-> VehicleLike(dimensions, params) ]

(***************************************************************************)
(* classify_clusters.                                                      *)
(***************************************************************************)
MinClusterPoints == 5

TallObjectHeight == 40

\* Variant: the tall-object test reads the largest extent, not the Z extent.
IsDynamic_TallOnLargest(pts, cluster_indices, params) ==
    IF Len(cluster_indices) < MinClusterPoints THEN FALSE
    ELSE LET geometry == AnalyzeClusterGeometry(pts, cluster_indices, params)
         IN  IF geometry.vehicle_like THEN TRUE
             ELSE IF geometry.sparse THEN TRUE
             ELSE IF Sorted3(geometry.dimensions)[3] > TallObjectHeight THEN TRUE
             ELSE FALSE

\* The verdict of the loop body for one cluster: TRUE when the cluster is
\* appended to dynamic_clusters.
IsDynamic(pts, cluster_indices, params) ==
    IF Len(cluster_indices) < MinClusterPoints THEN FALSE
    ELSE LET geometry == AnalyzeClusterGeometry(pts, cluster_indices, params)
         IN  IF geometry.vehicle_like THEN TRUE
             ELSE IF geometry.sparse THEN TRUE
             ELSE IF geometry.dimensions[3] > TallObjectHeight THEN TRUE
             ELSE FALSE

RECURSIVE SelectClusters_DropsSmall(_, _, _, _)
\* Variant: a cluster with fewer than MinClusterPoints points is in neither
\* list.
SelectClusters_DropsSmall(pts, cs, params, dynamic) ==
    IF cs = <<>> THEN <<>>
    ELSE LET rest == SelectClusters_DropsSmall(pts, Tail(cs), params, dynamic)
         IN  IF /\ Len(Head(cs)) >= MinClusterPoints
                /\ IsDynamic(pts, Head(cs), params) = dynamic
             THEN <<Head(cs)>> \o rest
             ELSE rest

RECURSIVE SelectClusters(_, _, _, _)
\* The clusters of `cs` whose verdict is `dynamic`, in their order in cs.
SelectClusters(pts, cs, params, dynamic) ==
    IF cs = <<>> THEN <<>>
    ELSE LET rest == SelectClusters(pts, Tail(cs), params, dynamic)
         IN  IF IsDynamic(pts, Head(cs), params) = dynamic
             THEN <<Head(cs)>> \o rest
             ELSE rest

ClassifyClusters(pts, cs, params) ==
    [ dynamic |-> SelectClusters(pts, cs, params, TRUE),
      static  |-> SelectClusters(pts, cs, params, FALSE) ]

(***************************************************************************)
(* The aggregation of detect_dynamic_objects (steps 5 and 6).              *)
(***************************************************************************)
DynamicIndices(dyn) == IF dyn # <<>> THEN Concatenate(dyn) ELSE <<>>

\* Variant: the ground indices are kept only when there is no static cluster.
StaticIndices_DropsGround(ground, stat) ==
    IF stat # <<>> THEN Concatenate(stat) ELSE ground

StaticIndices(ground, stat) ==
    IF stat # <<>> THEN Concatenate(<<ground>> \o stat) ELSE ground

\* confidence_scores in tenths: ones(N), then 0.8 at dynamic_indices, then
\* 0.9 at static_indices.
ConfidenceScores(n, dynamic, static) ==
    [i \in 1..n |-> IF i \in Range(static) THEN 9
                    ELSE IF i \in Range(dynamic) THEN 8
                    ELSE 10]

\* Variant: every point outside the static clusters is labelled dynamic.
MakeResult_DynamicByComplement(pts, ground, cs, dyn, stat, method) ==
    LET dynamic == SortedSeq({i \in DOMAIN pts :
                                \A j \in DOMAIN stat : i \notin Range(stat[j])})
    IN  [ dynamic_indices   |-> dynamic,
          static_indices    |-> StaticIndices(ground, stat),
          clusters          |-> cs,
          confidence_scores |-> ConfidenceScores(Len(pts), dynamic,
                                                 StaticIndices(ground, stat)),
          method_used       |-> method ]

MakeResult(pts, ground, cs, dyn, stat, method) ==
    [ dynamic_indices   |-> DynamicIndices(dyn),
      static_indices    |-> StaticIndices(ground, stat),
      clusters          |-> cs,
      confidence_scores |-> ConfidenceScores(Len(pts), DynamicIndices(dyn),
                                             StaticIndices(ground, stat)),
      method_used       |-> method ]

(***************************************************************************)
(* The detector as a state machine.  stage is the position of the one      *)
(* detect_dynamic_objects call in progress ("Idle": none).                 *)
(***************************************************************************)
\* MainWindow.__init__: no file loaded, no worker.
NoGui ==
    /\ window_open = TRUE
    /\ loader_cloud = NoCloud
    /\ file_loaded_pending = FALSE
    /\ detection_worker = "None"
    /\ workers_running = 0
    /\ signals = <<>>
    /\ status_message = "Ready"

\* The return value None.
None == [none |-> TRUE]

\* The visualizer's point cloud: points and their colours, or none.
NoVizCloud == [is_none |-> TRUE, points |-> <<>>, colors |-> <<>>]

VizCloud(pts, cols) == [is_none |-> FALSE, points |-> pts, colors |-> cols]

\* InteractiveVisualizer.__init__
NoVisualizer ==
    /\ viz_point_cloud = NoVizCloud
    /\ original_colors = <<>>
    /\ selected_indices = {}
    /\ callbacks = <<>>
    /\ callback_log = <<>>
    /\ last_call = [op |-> "__init__", args |-> <<>>, value |-> None]

NoLocals ==
    /\ points' = <<>>
    /\ above_ground_indices' = <<>>
    /\ ground_indices' = <<>>
    /\ clusters' = <<>>
    /\ dynamic_clusters' = <<>>
    /\ static_clusters' = <<>>

Init ==
    /\ point_cloud = NoCloud
    /\ ground_plane = NoPlane
    /\ detection_params = DefaultParams
    /\ stage = "Idle"
    /\ points = <<>>
    /\ above_ground_indices = <<>>
    /\ ground_indices = <<>>
    /\ clusters = <<>>
    /\ dynamic_clusters = <<>>
    /\ static_clusters = <<>>
    /\ result = NoResult
    /\ NoGui
    /\ NoVisualizer

\* Variant: set_point_cloud keeps the plane of the previous cloud.
SetPointCloud_KeepsPlane ==
    /\ stage = "Idle"
    /\ \E scene \in Scenes : point_cloud' = Cloud(scene)
    /\ UNCHANGED <<ground_plane, detection_params, stage, points,
                   above_ground_indices, ground_indices, clusters,
                   dynamic_clusters, static_clusters, result>>
    /\ UNCHANGED <<guiVars, vizVars>>

\* set_point_cloud(point_cloud)
SetPointCloud ==
    /\ stage = "Idle"
    /\ \E scene \in Scenes :
          /\ point_cloud' = Cloud(scene)
          /\ ground_plane' = NoPlane
    /\ UNCHANGED <<detection_params, stage, points, above_ground_indices,
                   ground_indices, clusters, dynamic_clusters, static_clusters,
                   result>>
    /\ UNCHANGED <<guiVars, vizVars>>

\* MainWindow.update_detection_parameters (the slot of the panel's
\* parameters_changed signal, run by the GUI thread) and the update at the
\* head of run_detection: detector.detection_params.update(params).  The
\* detection call runs in a DetectionWorker thread on the same detector, so
\* the slot can run between any two steps of a call.
UpdateDetectionParameters ==
    /\ \E params \in PanelParameters :
          detection_params' = DictUpdate(detection_params, params)
    /\ UNCHANGED <<point_cloud, ground_plane, stage, points, above_ground_indices,
                   ground_indices, clusters, dynamic_clusters, static_clusters,
                   result>>
    /\ UNCHANGED <<guiVars, vizVars>>

\* Variant: without a point cloud the call returns an empty result.
DetectNoPointCloud_EmptyResult ==
    /\ stage = "Idle"
    /\ point_cloud = NoCloud
    /\ stage' = "Done"
    /\ result' = MakeResult(<<>>, <<>>, <<>>, <<>>, <<>>, "geometric")
    /\ NoLocals
    /\ UNCHANGED <<point_cloud, ground_plane, detection_params>>
    /\ UNCHANGED <<guiVars, vizVars>>

\* detect_dynamic_objects with no point cloud set: raise ValueError.
DetectNoPointCloud ==
    /\ stage = "Idle"
    /\ point_cloud = NoCloud
    /\ stage' = "Failed"
    /\ result' = NoResult
    /\ NoLocals
    /\ UNCHANGED <<point_cloud, ground_plane, detection_params>>
    /\ UNCHANGED <<guiVars, vizVars>>

\* detect_dynamic_objects, step 1: points = asarray(point_cloud.points),
\* then detect_ground_plane(), which keeps self.ground_plane when
\* segment_plane raises.
DetectGroundPlane ==
    /\ stage = "Idle"
    /\ point_cloud # NoCloud
    /\ points' = point_cloud.points
    /\ \E outcome \in SegmentPlaneOutcomes(point_cloud.points) :
          ground_plane' = IF outcome = SegmentPlaneRaises THEN ground_plane
                          ELSE outcome
    /\ stage' = "GroundEstimated"
    /\ result' = NoResult
    /\ UNCHANGED <<point_cloud, detection_params, above_ground_indices,
                   ground_indices, clusters, dynamic_clusters, static_clusters>>
    /\ UNCHANGED <<guiVars, vizVars>>

\* step 2: filter_by_height(points).  An exception leaves the call.
FilterStep ==
    /\ stage = "GroundEstimated"
    /\ \E f \in FilterByHeightOutcomes(points, ground_plane, detection_params) :
          IF f = PercentileRaises
          THEN /\ stage' = "Failed"
               /\ NoLocals
          ELSE /\ above_ground_indices' = f.above
               /\ ground_indices' = f.ground
               /\ stage' = "Filtered"
               /\ UNCHANGED <<points, clusters, dynamic_clusters, static_clusters>>
    /\ UNCHANGED <<point_cloud, ground_plane, detection_params, result>>
    /\ UNCHANGED <<guiVars, vizVars>>

\* Variant: with no cluster to classify the call skips classify_clusters.
ClusterStep_SkipsClassification ==
    /\ stage = "Filtered"
    /\ clusters' \in ClusterPoints(points, above_ground_indices, detection_params)
    /\ stage' = IF clusters' = <<>> THEN "Classified" ELSE "Clustered"
    /\ UNCHANGED <<point_cloud, ground_plane, detection_params, points,
                   above_ground_indices, ground_indices, dynamic_clusters,
                   static_clusters, result>>
    /\ UNCHANGED <<guiVars, vizVars>>

\* Variant: classify_clusters reorders the point array it is given.
ClassifyStep_RotatesPoints ==
    /\ stage = "Clustered"
    /\ LET c == ClassifyClusters(points, clusters, detection_params)
       IN  /\ dynamic_clusters' = c.dynamic
           /\ static_clusters' = c.static
    /\ points' = IF points = <<>> THEN points ELSE Tail(points) \o <<Head(points)>>
    /\ stage' = "Classified"
    /\ UNCHANGED <<point_cloud, ground_plane, detection_params,
                   above_ground_indices, ground_indices, clusters, result>>
    /\ UNCHANGED <<guiVars, vizVars>>

\* step 3: cluster_points(points, above_ground_indices)
ClusterStep ==
    /\ stage = "Filtered"
    /\ clusters' \in ClusterPoints(points, above_ground_indices, detection_params)
    /\ stage' = "Clustered"
    /\ UNCHANGED <<point_cloud, ground_plane, detection_params, points,
                   above_ground_indices, ground_indices, dynamic_clusters,
                   static_clusters, result>>
    /\ UNCHANGED <<guiVars, vizVars>>

\* step 4: classify_clusters(points, clusters)
ClassifyStep ==
    /\ stage = "Clustered"
    /\ LET c == ClassifyClusters(points, clusters, detection_params)
       IN  /\ dynamic_clusters' = c.dynamic
           /\ static_clusters' = c.static
    /\ stage' = "Classified"
    /\ UNCHANGED <<point_cloud, ground_plane, detection_params, points,
                   above_ground_indices, ground_indices, clusters, result>>
    /\ UNCHANGED <<guiVars, vizVars>>

\* steps 5 and 6, and the return of the DetectionResult.
AggregateStep ==
    /\ stage = "Classified"
    /\ result' = MakeResult(points, ground_indices, clusters, dynamic_clusters,
                            static_clusters, "geometric")
    /\ stage' = "Done"
    /\ UNCHANGED <<point_cloud, ground_plane, detection_params, points,
                   above_ground_indices, ground_indices, clusters,
                   dynamic_clusters, static_clusters>>
    /\ UNCHANGED <<guiVars, vizVars>>

\* The caller has the result (or the error); the locals of the call are gone.
Return ==
    /\ stage \in {"Done", "Failed"}
    /\ stage' = "Idle"
    /\ result' = NoResult
    /\ NoLocals
    /\ UNCHANGED <<point_cloud, ground_plane, detection_params>>
    /\ UNCHANGED <<guiVars, vizVars>>

Next ==
    \/ SetPointCloud
    \/ UpdateDetectionParameters
    \/ DetectNoPointCloud
    \/ DetectGroundPlane
    \/ FilterStep
    \/ ClusterStep
    \/ ClassifyStep
    \/ AggregateStep
    \/ Return

Spec == Init /\ [][Next]_vars

\* detect_dynamic_objects is one synchronous function: the thread that has
\* entered it executes each of its steps in turn (weak fairness of the four
\* steps).  FilterStep and ClusterStep are enabled exactly in the stages
\* "GroundEstimated" and "Filtered" and leave them, so their weak fairness
\* is stated on the stage.
CallRuns ==
    /\ []<>(stage # "GroundEstimated")
    /\ []<>(stage # "Filtered")
    /\ WF_vars(ClassifyStep)
    /\ WF_vars(AggregateStep)

SpecLive == Init /\ [][Next]_vars /\ CallRuns

(***************************************************************************)
(* classify_clusters as a function of its arguments: the inputs are drawn  *)
(* in the initial state and the one action applies it.  The first cluster  *)
(* is a box of n returns with the extents <<dx, dy, dz>> (two opposite     *)
(* corners and n - 2 returns inside), the second four returns of a 5 m pole.*)
(***************************************************************************)
BoxX == {0, 20, 40, 80, 100}

BoxY == {10, 20, 25, 31, 100}

BoxZ == {4, 5, 15, 16, 30, 40, 41, 80, 120}

PointCounts == {5, 50, 500}

BoxPoints(d, n) ==
    [i \in 1..n |->
        IF i = 1 THEN <<10, 10, 5>>
        ELSE IF i = 2 THEN <<10 + d[1], 10 + d[2], 5 + d[3]>>
        ELSE <<10 + ((7 * i) % (d[1] + 1)),
               10 + ((11 * i) % (d[2] + 1)),
               5 + ((13 * i) % (d[3] + 1))>>]

Clump == << <<300, 300, 10>>, <<301, 300, 10>>, <<300, 301, 10>>, <<300, 300, 60>> >>

ClassifyParams == {DictUpdate(DefaultParams, upd) : upd \in PanelParameters}

InitClassify ==
    /\ point_cloud = NoCloud
    /\ ground_plane = NoPlane
    /\ detection_params \in ClassifyParams
    /\ stage = "Clustered"
    /\ \E dx \in BoxX, dy \in BoxY, dz \in BoxZ, n \in PointCounts :
          /\ points = BoxPoints(<<dx, dy, dz>>, n) \o Clump
          /\ clusters = << [i \in 1..n |-> i], [i \in 1..4 |-> n + i] >>
    /\ above_ground_indices = <<>>
    /\ ground_indices = <<>>
    /\ dynamic_clusters = <<>>
    /\ static_clusters = <<>>
    /\ result = NoResult
    /\ NoGui
    /\ NoVisualizer

NextClassify == ClassifyStep

SpecClassify == InitClassify /\ [][NextClassify]_vars

(***************************************************************************)
(* cluster_points as a function of its arguments.  The candidates are      *)
(* groups of coincident returns 1 m above the ground, in a row along x,    *)
(* listed group by group; a candidate set is empty, one such row, or the   *)
(* row followed by a copy of itself.  One ground return precedes them in   *)
(* the point array, so candidate k is point k + 1.                         *)
(***************************************************************************)
GroupCounts == {3, 5}

GroupSizes == {5, 6}

GroupGaps == {15, 100}

Groups(g, size, gap) == [k \in 1..(g * size) |-> <<gap * ((k - 1) \div size), 0, 10>>]

\* One group whose candidate count is one of CapProductRoundsDown.
LongRow == Groups(1, 77, 100)

CandidateSets ==
    {<<>>, LongRow}
    \cup {Groups(g, size, gap) : g \in GroupCounts, size \in GroupSizes, gap \in GroupGaps}
    \cup {Groups(g, size, gap) \o Groups(g, size, gap) :
            g \in GroupCounts, size \in GroupSizes, gap \in GroupGaps}

InitCluster ==
    /\ \E cand \in CandidateSets :
          /\ points = << <<0, 0, 0>> >> \o cand
          /\ point_cloud = Cloud(<< <<0, 0, 0>> >> \o cand)
          /\ above_ground_indices = [k \in 1..Len(cand) |-> k + 1]
    /\ ground_plane = <<0, 0, 1, 0>>
    /\ detection_params \in ClassifyParams
    /\ stage = "Filtered"
    /\ ground_indices = <<1>>
    /\ clusters = <<>>
    /\ dynamic_clusters = <<>>
    /\ static_clusters = <<>>
    /\ result = NoResult
    /\ NoGui
    /\ NoVisualizer

NextCluster == ClusterStep

SpecCluster == InitCluster /\ [][NextCluster]_vars

(***************************************************************************)
(* MainWindow and DetectionWorker (src/src/main_gui.py).  The GUI thread   *)
(* runs the handlers; a DetectionWorker thread runs                        *)
(* detector.detect_dynamic_objects on the detector the GUI thread also     *)
(* writes (set_point_cloud in on_file_loaded, detection_params.update).    *)
(* The worker's position is `stage`; here the first step of the call is    *)
(* taken apart: "Started" is the position between                          *)
(* points = np.asarray(self.point_cloud.points) and detect_ground_plane(), *)
(* where the GUI thread can run as it can between any other two steps.     *)
(***************************************************************************)
GuiScenes == {SceneGround, SceneVehicle}

\* load_file's load_worker after a successful loader.load_pcd: the loader
\* holds the new cloud and on_file_loaded(True) is scheduled.
LoadFile ==
    /\ window_open
    /\ \E scene \in GuiScenes : loader_cloud' = Cloud(scene)
    /\ file_loaded_pending' = TRUE
    /\ UNCHANGED <<detectorVars, window_open, detection_worker, workers_running,
                   signals, status_message, vizVars>>

\* on_file_loaded(True): detector.set_point_cloud(loader.get_point_cloud())
OnFileLoaded ==
    /\ window_open
    /\ file_loaded_pending
    /\ point_cloud' = loader_cloud
    /\ ground_plane' = NoPlane
    /\ file_loaded_pending' = FALSE
    /\ status_message' = "Loaded"
    /\ UNCHANGED <<detection_params, stage, points, above_ground_indices,
                   ground_indices, clusters, dynamic_clusters, static_clusters,
                   result, window_open, loader_cloud, detection_worker,
                   workers_running, signals, vizVars>>

\* Variant: run_detection does not look at the worker it already has.
RunDetection_NoRunningCheck ==
    /\ window_open
    /\ IF loader_cloud = NoCloud
       THEN /\ status_message' = "LoadFirst"
            /\ UNCHANGED <<detection_params, detection_worker, workers_running,
                           signals>>
       ELSE /\ \E params \in PanelParameters :
                  detection_params' = DictUpdate(detection_params, params)
            /\ detection_worker' = "Running"
            /\ workers_running' = workers_running + 1
            /\ signals' = <<>>
            /\ status_message' = "Detecting"
    /\ UNCHANGED <<point_cloud, ground_plane, stage, points, above_ground_indices,
                   ground_indices, clusters, dynamic_clusters, static_clusters,
                   result, window_open, loader_cloud, file_loaded_pending,
                   vizVars>>

\* run_detection
RunDetection ==
    /\ window_open
    /\ IF loader_cloud = NoCloud
       THEN /\ status_message' = "LoadFirst"
            /\ UNCHANGED <<detection_params, detection_worker, workers_running,
                           signals>>
       ELSE IF detection_worker = "Running"
       THEN /\ status_message' = "AlreadyRunning"
            /\ UNCHANGED <<detection_params, detection_worker, workers_running,
                           signals>>
       ELSE /\ \E params \in PanelParameters :
                  detection_params' = DictUpdate(detection_params, params)
            /\ detection_worker' = "Running"
            /\ workers_running' = workers_running + 1
            /\ signals' = <<>>
            /\ status_message' = "Detecting"
    /\ UNCHANGED <<point_cloud, ground_plane, stage, points, above_ground_indices,
                   ground_indices, clusters, dynamic_clusters, static_clusters,
                   result, window_open, loader_cloud, file_loaded_pending,
                   vizVars>>

\* The Apply button of the parameter panel.
ApplyParameters == window_open /\ UpdateDetectionParameters

\* DetectionWorker.run enters detect_dynamic_objects with no cloud set.
WorkerNoPointCloud == detection_worker = "Running" /\ DetectNoPointCloud

\* detect_dynamic_objects, line 291: points = np.asarray(self.point_cloud.points)
WorkerCapturePoints ==
    /\ detection_worker = "Running"
    /\ stage = "Idle"
    /\ point_cloud # NoCloud
    /\ points' = point_cloud.points
    /\ stage' = "Started"
    /\ result' = NoResult
    /\ UNCHANGED <<point_cloud, ground_plane, detection_params,
                   above_ground_indices, ground_indices, clusters,
                   dynamic_clusters, static_clusters, guiVars, vizVars>>

\* detect_dynamic_objects, line 297: self.detect_ground_plane(), on the
\* cloud self.point_cloud refers to now.
WorkerDetectGroundPlane ==
    /\ stage = "Started"
    /\ \E outcome \in SegmentPlaneOutcomes(point_cloud.points) :
          ground_plane' = IF outcome = SegmentPlaneRaises THEN ground_plane
                          ELSE outcome
    /\ stage' = "GroundEstimated"
    /\ UNCHANGED <<point_cloud, detection_params, points, above_ground_indices,
                   ground_indices, clusters, dynamic_clusters, static_clusters,
                   result, guiVars, vizVars>>

\* DetectionWorker.run after the call: detection_completed.emit(result), or
\* error_occurred.emit(str(e)) from the except clause; the thread ends and
\* the connected slot shows the outcome.
WorkerFinishes ==
    /\ stage \in {"Done", "Failed"}
    /\ signals' = Append(signals, IF stage = "Done" THEN "detection_completed"
                                  ELSE "error_occurred")
    /\ detection_worker' = "Finished"
    /\ workers_running' = workers_running - 1
    /\ status_message' = IF stage = "Done" THEN "Completed" ELSE "DetectionError"
    /\ stage' = "Idle"
    /\ result' = NoResult
    /\ NoLocals
    /\ UNCHANGED <<point_cloud, ground_plane, detection_params, window_open,
                   loader_cloud, file_loaded_pending, vizVars>>

\* closeEvent: a running worker is terminated (QThread.terminate), which
\* ends its thread wherever it is.
CloseEvent ==
    /\ window_open
    /\ window_open' = FALSE
    /\ IF detection_worker = "Running"
       THEN /\ detection_worker' = "Terminated"
            /\ workers_running' = workers_running - 1
            /\ stage' = "Idle"
            /\ result' = NoResult
            /\ NoLocals
       ELSE UNCHANGED <<detection_worker, workers_running, stage, result, points,
                        above_ground_indices, ground_indices, clusters,
                        dynamic_clusters, static_clusters>>
    /\ UNCHANGED <<point_cloud, ground_plane, detection_params, loader_cloud,
                   file_loaded_pending, signals, status_message, vizVars>>

NextGui ==
    \/ LoadFile
    \/ OnFileLoaded
    \/ RunDetection
    \/ ApplyParameters
    \/ WorkerNoPointCloud
    \/ WorkerCapturePoints
    \/ WorkerDetectGroundPlane
    \/ FilterStep
    \/ ClusterStep
    \/ ClassifyStep
    \/ AggregateStep
    \/ WorkerFinishes
    \/ CloseEvent

SpecGui == Init /\ [][NextGui]_vars

(***************************************************************************)
(* InteractiveVisualizer (src/src/visualizer.py): the point cloud it       *)
(* shows, the selection, and the editing calls.  A colour is "original"    *)
(* (the default grey), "selected", or "file" (a colour read from the       *)
(* file).  Each call records its name, arguments and return value in       *)
(* last_call.                                                              *)
(***************************************************************************)
MaxVizPoints == 4

MaxCallbacks == 1

\* Clouds handed to set_point_cloud: empty, without colours, with colours.
VizClouds ==
    { VizCloud(<<>>, <<>>),
      VizCloud(<< <<0, 0, 0>>, <<10, 0, 0>> >>, <<>>),
      VizCloud(<< <<0, 0, 0>>, <<10, 0, 0>>, <<0, 10, 0>> >>,
               <<"file", "file", "file">>) }

\* Arguments of paste_points.
PastedPoints == { <<>>, << <<5, 5, 5>> >>, << <<0, 0, 0>>, <<10, 0, 0>> >> }

PasteOffsets == { <<0, 0, 10>> }

CallbackNames == {"on_points_deleted"}

\* np.tile(self.colors['original'], (n, 1))
Tile(n) == [i \in 1..n |-> "original"]

Call(op, args, value) == [op |-> op, args |-> args, value |-> value]

\* set_point_cloud(point_cloud)
VizSetPointCloud ==
    /\ \E pc \in VizClouds :
          /\ IF Len(pc.colors) > 0
             THEN /\ original_colors' = pc.colors
                  /\ viz_point_cloud' = pc
             ELSE /\ original_colors' = Tile(Len(pc.points))
                  /\ viz_point_cloud' = VizCloud(pc.points, Tile(Len(pc.points)))
          /\ last_call' = Call("set_point_cloud", <<pc>>, None)
    /\ selected_indices' = {}
    /\ UNCHANGED <<callbacks, callback_log, detectorVars, guiVars>>

\* highlight_selection(indices), indices an integer array of positions of
\* the cloud.
HighlightSelection ==
    /\ \E indices \in SUBSET (1..Len(viz_point_cloud.points)) :
          /\ last_call' = Call("highlight_selection", <<indices>>, None)
          /\ IF viz_point_cloud = NoVizCloud
             THEN UNCHANGED <<viz_point_cloud, selected_indices>>
             ELSE LET colors == viz_point_cloud.colors
                      reset  == [i \in DOMAIN colors |->
                                   IF i \in selected_indices
                                   THEN original_colors[i] ELSE colors[i]]
                  IN  /\ selected_indices' = indices
                      /\ viz_point_cloud' =
                            VizCloud(viz_point_cloud.points,
                                     [i \in DOMAIN colors |->
                                        IF i \in indices THEN "selected"
                                        ELSE reset[i]])
    /\ UNCHANGED <<original_colors, callbacks, callback_log, detectorVars, guiVars>>

\* Variant: original_colors is not filtered with the points.
DeleteSelected_KeepsOriginalColors(pc, orig, sel) ==
    IF pc = NoVizCloud \/ sel = {}
    THEN [cloud |-> pc, original |-> orig, selected |-> sel, count |-> 0]
    ELSE LET keep_mask == {i \in DOMAIN pc.points : i \notin sel}
         IN  [ cloud    |-> VizCloud(MaskSelect(pc.points, keep_mask),
                                     MaskSelect(pc.colors, keep_mask)),
               original |-> orig,
               selected |-> {},
               count    |-> Cardinality(sel) ]

\* delete_selected_points() on the cloud pc, original colours orig and
\* selection sel: the new cloud, original colours and selection, and the
\* returned count.
DeleteSelected(pc, orig, sel) ==
    IF pc = NoVizCloud \/ sel = {}
    THEN [cloud |-> pc, original |-> orig, selected |-> sel, count |-> 0]
    ELSE LET keep_mask == {i \in DOMAIN pc.points : i \notin sel}
         IN  [ cloud    |-> VizCloud(MaskSelect(pc.points, keep_mask),
                                     MaskSelect(pc.colors, keep_mask)),
               original |-> MaskSelect(orig, keep_mask),
               selected |-> {},
               count    |-> Cardinality(sel) ]

\* delete_selected_points()
DeleteSelectedPoints ==
    /\ LET d == DeleteSelected(viz_point_cloud, original_colors, selected_indices)
       IN  /\ viz_point_cloud' = d.cloud
           /\ original_colors' = d.original
           /\ selected_indices' = d.selected
           /\ last_call' = Call("delete_selected_points", <<>>, d.count)
    /\ UNCHANGED <<callbacks, callback_log, detectorVars, guiVars>>

\* paste_points(points, offset)
PastePoints ==
    /\ \E pts \in PastedPoints, offset \in PasteOffsets :
          /\ Len(viz_point_cloud.points) + Len(pts) <= MaxVizPoints
          /\ last_call' = Call("paste_points", <<pts, offset>>, None)
          /\ IF viz_point_cloud = NoVizCloud \/ Len(pts) = 0
             THEN UNCHANGED <<viz_point_cloud, original_colors>>
             ELSE LET new_points == [i \in DOMAIN pts |->
                                       << pts[i][1] + offset[1],
                                          pts[i][2] + offset[2],
                                          pts[i][3] + offset[3] >>]
                  IN  /\ viz_point_cloud' =
                            VizCloud(viz_point_cloud.points \o new_points,
                                     viz_point_cloud.colors \o Tile(Len(pts)))
                      /\ original_colors' = original_colors \o Tile(Len(pts))
    /\ UNCHANGED <<selected_indices, callbacks, callback_log, detectorVars, guiVars>>

\* add_callback('points_deleted', callback)
AddCallback ==
    /\ Len(callbacks) < MaxCallbacks
    /\ \E cb \in CallbackNames :
          /\ callbacks' = Append(callbacks, cb)
          /\ last_call' = Call("add_callback", <<cb>>, None)
    /\ UNCHANGED <<viz_point_cloud, original_colors, selected_indices,
                   callback_log, detectorVars, guiVars>>

\* _on_delete_key: delete_selected_points(), then
\* trigger_callback('points_deleted', list(self.selected_indices)), which
\* calls every registered callback with the list built from the selection
\* as it is after the deletion.
OnDeleteKey ==
    /\ IF selected_indices # {}
       THEN LET d == DeleteSelected(viz_point_cloud, original_colors,
                                    selected_indices)
            IN  /\ viz_point_cloud' = d.cloud
                /\ original_colors' = d.original
                /\ selected_indices' = d.selected
                /\ callback_log' =
                      [j \in DOMAIN callbacks |->
                         [callback |-> callbacks[j],
                          indices  |-> SortedSeq(d.selected)]]
       ELSE /\ callback_log' = <<>>
            /\ UNCHANGED <<viz_point_cloud, original_colors, selected_indices>>
    /\ last_call' = Call("_on_delete_key", <<>>, FALSE)
    /\ UNCHANGED <<callbacks, detectorVars, guiVars>>

NextViz ==
    \/ VizSetPointCloud
    \/ HighlightSelection
    \/ DeleteSelectedPoints
    \/ PastePoints
    \/ AddCallback
    \/ OnDeleteKey

SpecViz == Init /\ [][NextViz]_vars

(***************************************************************************)
(* Properties.                                                             *)
(***************************************************************************)
AllIndices == 1..Len(points)

\* C1 (coverage): when a detection call is done, dynamic_indices and
\* static_indices together hold every index of the point set.
C1_Coverage ==
    stage = "Done" =>
        Range(result.dynamic_indices) \cup Range(result.static_indices) = AllIndices

\* C2 (disjointness): when a detection call is done, no index is both in
\* dynamic_indices and in static_indices.
C2_Disjoint ==
    stage = "Done" =>
        Range(result.dynamic_indices) \cap Range(result.static_indices) = {}

\* C3 (uniqueness): when a detection call is done, neither dynamic_indices
\* nor static_indices lists an index twice.
C3_Unique ==
    stage = "Done" =>
        /\ ~HasDuplicates(result.dynamic_indices)
        /\ ~HasDuplicates(result.static_indices)

\* C4: once filter_by_height has run, every index of the point set is in
\* exactly one of above_ground_indices and ground_indices, once, with or
\* without a ground plane.
C4_FilterPartition ==
    stage \in {"Filtered", "Clustered", "Classified", "Done"} =>
        /\ ~HasDuplicates(above_ground_indices)
        /\ ~HasDuplicates(ground_indices)
        /\ Range(above_ground_indices) \cap Range(ground_indices) = {}
        /\ Range(above_ground_indices) \cup Range(ground_indices) = AllIndices

\* The height filter has run without a ground plane (percentile fallback)
\* and put points on both sides.
C4_Witness ==
    /\ stage = "Filtered"
    /\ ground_plane = NoPlane
    /\ above_ground_indices # <<>>
    /\ ground_indices # <<>>

\* C5: the clusters returned by cluster_points are mutually disjoint.
C5_ClustersDisjoint ==
    stage = "Clustered" =>
        \A i, j \in DOMAIN clusters :
            i # j => Range(clusters[i]) \cap Range(clusters[j]) = {}

\* C6: cluster_points returns no cluster with fewer points than
\* cluster_min_samples.
C6_MinSamples ==
    stage = "Clustered" =>
        \A i \in DOMAIN clusters :
            Len(clusters[i]) >= detection_params.cluster_min_samples

\* C7: classify_clusters puts a cluster in dynamic_clusters exactly when it
\* has at least 5 points and is vehicle-like, or sparser than
\* density_threshold, or more than 4.0 m tall; every other cluster goes to
\* static_clusters; both lists keep the input order.
C7_Rule1(c) == Len(c) < 5

C7_Rule2(c) ==
    VehicleLike(<<Extent(points, c, 1), Extent(points, c, 2), Extent(points, c, 3)>>,
                detection_params)

C7_Rule3(c) ==
    DensityBelow(Len(c),
                 Extent(points, c, 1) * Extent(points, c, 2) * Extent(points, c, 3),
                 detection_params.density_threshold)

C7_Rule4(c) == Extent(points, c, 3) > 40

C7_Dynamic(c) == ~C7_Rule1(c) /\ (C7_Rule2(c) \/ C7_Rule3(c) \/ C7_Rule4(c))

C7_Static(c) == ~C7_Dynamic(c)

C7_RuleChain ==
    stage = "Classified" =>
        /\ dynamic_clusters = SelectSeq(clusters, C7_Dynamic)
        /\ static_clusters = SelectSeq(clusters, C7_Static)

\* classify_clusters has put a cluster of at least 5 points on the dynamic
\* side by the tall-object rule alone, and a smaller one on the static side.
C7_Witness ==
    /\ stage = "Classified"
    /\ \E i \in DOMAIN clusters :
          /\ clusters[i] \in Range(dynamic_clusters)
          /\ ~C7_Rule2(clusters[i]) /\ ~C7_Rule3(clusters[i]) /\ C7_Rule4(clusters[i])
    /\ \E i \in DOMAIN clusters :
          /\ clusters[i] \in Range(static_clusters)
          /\ C7_Rule1(clusters[i])

\* C8 (classification scenario): with default parameters a cluster of at
\* least 50 points with extents 4 x 2 x 1.5 m, 8 x 2.5 x 3.0 m or
\* 4 x 2 x 1.6 m is classified dynamic, and a cluster of at least 500
\* points with extents 10 x 10 x 8 m or 10 x 10 x 12 m is classified static.
C8_Scenario ==
    (stage = "Classified" /\ detection_params = DefaultParams) =>
        \A i \in DOMAIN clusters :
            LET c == clusters[i]
                d == IF c = <<>> THEN <<0, 0, 0>>
                     ELSE <<Extent(points, c, 1), Extent(points, c, 2),
                            Extent(points, c, 3)>>
            IN  /\ (Len(c) >= 50 /\ d \in {<<40, 20, 15>>, <<80, 25, 30>>, <<40, 20, 16>>})
                        => c \in Range(dynamic_clusters)
                /\ (Len(c) >= 500 /\ d \in {<<100, 100, 80>>, <<100, 100, 120>>})
                        => c \in Range(static_clusters)

\* C9: when a detection call is done, confidence_scores has one score per
\* point, each in [0, 1] (0..10 tenths), 0.8 at every index of
\* dynamic_indices and 0.9 at every index of static_indices.
C9_Confidence ==
    stage = "Done" =>
        /\ Len(result.confidence_scores) = Len(points)
        /\ \A i \in DOMAIN result.confidence_scores :
              result.confidence_scores[i] \in 0..10
        /\ \A i \in Range(result.dynamic_indices) : result.confidence_scores[i] = 8
        /\ \A i \in Range(result.static_indices) : result.confidence_scores[i] = 9

\* C10: a detect_dynamic_objects call made while no point cloud is set
\* fails at once: no stage has run, there is no result, and ground_plane
\* and detection_params are as before.
C10_NoCloudFails ==
    [][(stage = "Idle" /\ point_cloud = NoCloud /\ stage' # "Idle") =>
            /\ stage' = "Failed"
            /\ result' = NoResult
            /\ points' = <<>>
            /\ above_ground_indices' = <<>> /\ ground_indices' = <<>>
            /\ clusters' = <<>>
            /\ dynamic_clusters' = <<>> /\ static_clusters' = <<>>
            /\ ground_plane' = ground_plane
            /\ detection_params' = detection_params]_vars

\* A call without a point cloud has failed.
C10_Witness == stage = "Failed" /\ point_cloud = NoCloud /\ result = NoResult

\* C11: a detect_dynamic_objects call on a point cloud that is set but
\* holds no point fails; it never returns a DetectionResult.
C11_EmptyCloudFails ==
    ~(stage = "Done" /\ point_cloud # NoCloud /\ points = <<>>)

\* C12: in a call on a cloud of one or two points segment_plane raises; the
\* call goes on, self.ground_plane is None after the estimation, and the
\* height filter returns the partition of the Z-percentile fallback
\* (z > 10th percentile of z + height_threshold).
C12_EstimationFailed == points # <<>> /\ SegmentPlaneOutcomes(points) = {SegmentPlaneRaises}

C12_FallbackMask ==
    {i \in DOMAIN points :
        10 * points[i][3] >
            Percentile10Times10([k \in DOMAIN points |-> points[k][3]])
                + 10 * detection_params.height_threshold}

C12_PlaneFailureRecovered ==
    [][/\ (stage = "Idle" /\ stage' # "Idle" /\ point_cloud # NoCloud
            /\ point_cloud.points # <<>>
            /\ SegmentPlaneOutcomes(point_cloud.points) = {SegmentPlaneRaises})
          => (stage' = "GroundEstimated" /\ ground_plane' = NoPlane)
       /\ (stage = "GroundEstimated" /\ stage' # stage /\ C12_EstimationFailed)
          => /\ stage' = "Filtered"
             /\ above_ground_indices' = SortedSeq(C12_FallbackMask)
             /\ ground_indices' = SortedSeq(DOMAIN points \ C12_FallbackMask)]_vars

\* The height filter has run in a call whose plane estimation failed, and
\* the fallback has put a point on each side.
C12_Witness ==
    /\ stage = "Filtered"
    /\ C12_EstimationFailed
    /\ above_ground_indices # <<>>
    /\ ground_indices # <<>>

\* C13: when a detection call is done and clustering returned no cluster,
\* dynamic_indices is empty and static_indices holds every index of the
\* point set.
C13_NoClusters ==
    (stage = "Done" /\ result.clusters = <<>>) =>
        /\ result.dynamic_indices = <<>>
        /\ Range(result.static_indices) = AllIndices

\* C14: a call on a present point set passes Idle, GroundEstimated,
\* Filtered, Clustered, Classified, Done in that order, one stage at a time
\* and never backwards (a stage can only be left for the next one, or for
\* Failed); once started it reaches Done or fails; a result exists only at
\* Done.
C14_StageOrder ==
    { <<"Idle", "GroundEstimated">>, <<"GroundEstimated", "Filtered">>,
      <<"Filtered", "Clustered">>, <<"Clustered", "Classified">>,
      <<"Classified", "Done">>, <<"Done", "Idle">>,
      <<"Idle", "Failed">>, <<"GroundEstimated", "Failed">>, <<"Failed", "Idle">> }

C14_LinearStages ==
    /\ [][stage' # stage => <<stage, stage'>> \in C14_StageOrder]_vars
    /\ [](stage # "Done" => result = NoResult)
    /\ (stage = "GroundEstimated") ~> (stage \in {"Done", "Failed"})

\* A call has passed every stage and holds its result.
C14_Witness == stage = "Done" /\ result # NoResult /\ result.clusters # <<>>

\* C15: a finished call has used one parameter bundle: some bundle gives
\* the height filter's partition, the clusters and the classification the
\* call has computed.
C15_ConsistentWith(b) ==
    /\ above_ground_indices = FilterByHeight(points, ground_plane, b).above
    /\ clusters \in ClusterPoints(points, above_ground_indices, b)
    /\ dynamic_clusters = ClassifyClusters(points, clusters, b).dynamic
    /\ static_clusters = ClassifyClusters(points, clusters, b).static

C15_ParameterSnapshot ==
    stage = "Done" => \E b \in ClassifyParams : C15_ConsistentWith(b)

\* C16: plane estimation and cluster_points are functions of the point set
\* and the parameters: the same inputs give one output.
C16_Deterministic ==
    /\ (stage = "Idle" /\ point_cloud # NoCloud) =>
            Cardinality(SegmentPlaneOutcomes(point_cloud.points)) = 1
    /\ stage = "Filtered" =>
            Cardinality(ClusterPoints(points, above_ground_indices,
                                      detection_params)) = 1

\* C17: from its first stage to its result a call leaves its point array,
\* and the point cloud it was taken from, as they are.
C17_PointsUnchanged ==
    [][(stage \notin {"Idle", "Failed"} /\ stage' \notin {"Idle", "Failed"})
            => (points' = points /\ point_cloud' = point_cloud
                /\ points' = point_cloud'.points)]_vars

\* A call is done on a non-empty point set after classifying a cluster.
C17_Witness ==
    /\ stage = "Done"
    /\ points # <<>>
    /\ points = point_cloud.points
    /\ dynamic_clusters # <<>>

\* C18: when a detection call is done, dynamic_indices holds exactly the
\* indices of the dynamic clusters, and static_indices exactly the ground
\* indices of the height filter and the indices of the static clusters.
C18_Aggregation ==
    stage = "Done" =>
        /\ Range(result.dynamic_indices) =
              UNION {Range(dynamic_clusters[k]) : k \in DOMAIN dynamic_clusters}
        /\ Range(result.static_indices) =
              Range(ground_indices) \cup
              UNION {Range(static_clusters[k]) : k \in DOMAIN static_clusters}

\* A call is done with ground points, a static cluster and a dynamic one.
C18_Witness ==
    /\ stage = "Done"
    /\ ground_indices # <<>>
    /\ static_clusters # <<>>
    /\ dynamic_clusters # <<>>

\* C19: when the candidate set is a set of at most 30,000 points followed
\* by a copy of itself and has more than 30,000 points, the number of
\* clusters the sampled path returns for it differs by at most 20% from the
\* number the exact path returns for the set without the copy.
C19_Half == Len(above_ground_indices) \div 2

C19_Duplicated ==
    /\ Len(above_ground_indices) = 2 * C19_Half
    /\ C19_Half <= LargeDatasetThreshold
    /\ Len(above_ground_indices) > LargeDatasetThreshold
    /\ \A k \in 1..C19_Half :
          points[above_ground_indices[k]] = points[above_ground_indices[k + C19_Half]]

C19_ExactCount ==
    Len(DBSCAN([k \in 1..C19_Half |-> points[above_ground_indices[k]]],
               detection_params.cluster_eps, detection_params.cluster_min_samples))

C19_PathEquivalence ==
    (stage = "Clustered" /\ C19_Duplicated) =>
        /\ 5 * (Len(clusters) - C19_ExactCount) <= C19_ExactCount
        /\ 5 * (C19_ExactCount - Len(clusters)) <= C19_ExactCount

\* C20: cluster_points returns the empty list for no candidate; for at most
\* 30,000 candidates the DBSCAN clusters of all candidates with the
\* configured eps and cluster_min_samples, each as the global indices of
\* its points; for more than 30,000 the clusters of the sampled path.
C20_Candidates == [k \in DOMAIN above_ground_indices |-> points[above_ground_indices[k]]]

C20_Labels ==
    DBSCAN(C20_Candidates, detection_params.cluster_eps,
           detection_params.cluster_min_samples)

C20_PathChoice ==
    stage = "Clustered" =>
        LET n == Len(above_ground_indices)
        IN  /\ n = 0 => clusters = <<>>
            /\ (0 < n /\ n <= 30) =>
                  /\ Len(clusters) = Len(C20_Labels)
                  /\ \A l \in DOMAIN clusters :
                        /\ Range(clusters[l]) =
                              {above_ground_indices[k] : k \in C20_Labels[l]}
                        /\ \A a, b \in DOMAIN clusters[l] :
                              a < b => clusters[l][a] < clusters[l][b]
            /\ n > 30 =>
                  \E draw \in SampleDraws(n, SampleSize(n)) :
                      clusters = SampledClusters(C20_Candidates, above_ground_indices,
                                                 draw, detection_params)

\* cluster_points has clustered a candidate set of exactly the threshold
\* size, and found clusters.
C20_Witness ==
    /\ stage = "Clustered"
    /\ Len(above_ground_indices) = LargeDatasetThreshold
    /\ Len(clusters) > 1

\* C21: on the sampled path with n candidates the subsample has
\* min(floor(0.3 n), SampleCap) points, all distinct positions of the
\* candidate array, and DBSCAN on it runs with
\* min_samples = max(5, cluster_min_samples // 2).
C21_Expected(n) == IF (3 * n) \div 10 <= SampleCap THEN (3 * n) \div 10 ELSE SampleCap

C21_Subsample ==
    (stage = "Clustered" /\ Len(above_ground_indices) > LargeDatasetThreshold) =>
        LET n == Len(above_ground_indices)
            half == detection_params.cluster_min_samples \div 2
            relaxed == RelaxedMinSamples(detection_params)
        IN  /\ \A draw \in SampleDraws(n, SampleSize(n)) :
                  /\ Len(draw) = C21_Expected(n)
                  /\ Cardinality(Range(draw)) = C21_Expected(n)
                  /\ Range(draw) \subseteq 1..n
            /\ relaxed >= 5
            /\ relaxed >= half
            /\ relaxed \in {5, half}

\* C22: on the sampled path there is a draw such that the returned list is,
\* in label order, one cluster per sample cluster whose ball (the candidates,
\* sampled or not, within 1.5 * cluster_eps of the mean of the sample
\* cluster) has at least cluster_min_samples points; each returned cluster
\* is exactly that ball, and every returned index is a candidate index.
C22_Ball(cand, sample, members, eps) ==
    LET m == Cardinality(members)
    IN  {k \in DOMAIN cand :
            4 * ( Sq(m * cand[k][1] - SumCoord(sample, members, 1))
                + Sq(m * cand[k][2] - SumCoord(sample, members, 2))
                + Sq(m * cand[k][3] - SumCoord(sample, members, 3)) )
              <= 9 * eps * eps * m * m}

C22_Expansion ==
    (stage = "Clustered" /\ Len(above_ground_indices) > LargeDatasetThreshold) =>
        LET n == Len(above_ground_indices)
            cand == [k \in 1..n |-> points[above_ground_indices[k]]]
        IN  \E draw \in SampleDraws(n, SampleSize(n)) :
              LET sample == [j \in DOMAIN draw |-> cand[draw[j]]]
                  labels == DBSCAN(sample, detection_params.cluster_eps,
                                   RelaxedMinSamples(detection_params))
                  ball == [l \in DOMAIN labels |->
                             {above_ground_indices[k] :
                                k \in C22_Ball(cand, sample, labels[l],
                                               detection_params.cluster_eps)}]
                  Returned(l) ==
                      Cardinality(ball[l]) >= detection_params.cluster_min_samples
                  kept == SelectSeq([l \in DOMAIN labels |-> l], Returned)
              IN  /\ Len(clusters) = Len(kept)
                  /\ \A j \in DOMAIN clusters :
                        /\ Range(clusters[j]) = ball[kept[j]]
                        /\ Len(clusters[j]) = Cardinality(ball[kept[j]])
                        /\ Range(clusters[j]) \subseteq Range(above_ground_indices)

\* C22 witness: a sampled-path result with a cluster larger than the
\* subsample, so it holds candidates that were not sampled.
C22_Witness ==
    /\ stage = "Clustered"
    /\ Len(above_ground_indices) > LargeDatasetThreshold
    /\ \E j \in DOMAIN clusters :
          Len(clusters[j]) > SampleSize(Len(above_ground_indices))

\* C23: vehicle_like does not change when the x, y, z extents are permuted,
\* and under the default ranges it is true exactly when the extents in
\* ascending order (height, width, length) satisfy 0.5 <= height <= 3.0,
\* 1.0 <= width <= 3.0 and 2.0 <= length <= 8.0.
C23_Permutations ==
    {p \in [1..3 -> 1..3] : {p[1], p[2], p[3]} = 1..3}

C23_DefaultRanges ==
    /\ detection_params.vehicle_height_range = <<5, 30>>
    /\ detection_params.vehicle_width_range = <<10, 30>>
    /\ detection_params.vehicle_length_range = <<20, 80>>

C23_VehicleLike ==
    stage = "Classified" =>
        \A j \in DOMAIN clusters :
            LET geometry == AnalyzeClusterGeometry(points, clusters[j], detection_params)
                d == geometry.dimensions
            IN  /\ \A p \in C23_Permutations :
                      VehicleLike(<<d[p[1]], d[p[2]], d[p[3]]>>, detection_params)
                        = geometry.vehicle_like
                /\ C23_DefaultRanges =>
                      ( geometry.vehicle_like <=>
                          \E p \in C23_Permutations :
                              /\ d[p[1]] <= d[p[2]] /\ d[p[2]] <= d[p[3]]
                              /\ 5 <= d[p[1]] /\ d[p[1]] <= 30
                              /\ 10 <= d[p[2]] /\ d[p[2]] <= 30
                              /\ 20 <= d[p[3]] /\ d[p[3]] <= 80 )

\* C23 witness: a classified cluster whose extents are the three lower
\* bounds, the height along z, the width along y and the length along x,
\* found vehicle-like and moved to the dynamic list.
C23_Witness ==
    /\ stage = "Classified"
    /\ C23_DefaultRanges
    /\ AnalyzeClusterGeometry(points, clusters[1], detection_params).dimensions
         = <<20, 10, 5>>
    /\ AnalyzeClusterGeometry(points, clusters[1], detection_params).vehicle_like
    /\ clusters[1] \in Range(dynamic_clusters)

\* C24: the volume analyze_cluster_geometry reports for a cluster is the
\* product of the extents clamped below by 1e-6 m^3, that is the (positive)
\* divisor of the reported density, also for a cluster with a zero extent.
C24_ClampedVolume ==
    stage = "Classified" =>
        \A j \in DOMAIN clusters :
            LET geometry == AnalyzeClusterGeometry(points, clusters[j], detection_params)
            IN  /\ geometry.volume > 0
                /\ DensityDivisor(geometry.volume) > 0
                /\ 1000 * geometry.volume = DensityDivisor(geometry.volume)

\* C25: every index of result.dynamic_indices is in some cluster of
\* result.clusters and in the above-ground set of the height filter, and
\* none is in the ground set.
C25_DynamicThroughClusters ==
    stage = "Done" =>
        \A i \in Range(result.dynamic_indices) :
            /\ \E j \in DOMAIN result.clusters : i \in Range(result.clusters[j])
            /\ i \in Range(above_ground_indices)
            /\ i \notin Range(ground_indices)

\* C25 witness: a finished call with dynamic points and ground points.
C25_Witness ==
    /\ stage = "Done"
    /\ result.dynamic_indices # <<>>
    /\ ground_indices # <<>>

\* C26: after classify_clusters the input list is split in two: some set D
\* of its positions gives dynamic_clusters, the other positions give
\* static_clusters, each list holding the input clusters unchanged and in
\* input order.
C26_Pick(cs, D) == [k \in 1..Cardinality(D) |-> cs[SortedSeq(D)[k]]]

C26_Partition ==
    stage = "Classified" =>
        \E D \in SUBSET (DOMAIN clusters) :
            /\ dynamic_clusters = C26_Pick(clusters, D)
            /\ static_clusters = C26_Pick(clusters, (DOMAIN clusters) \ D)

\* C26 witness: a classification with a cluster in each list.
C26_Witness ==
    /\ stage = "Classified"
    /\ dynamic_clusters # <<>>
    /\ static_clusters # <<>>

\* C27: at most one detection worker runs at any time; a worker starts only
\* on a request made with a loaded cloud and no running worker; a request
\* rejected because a worker is running, or because no cloud is loaded,
\* changes neither the worker nor the detector parameters; a running worker
\* has emitted nothing and a worker that has ended has emitted exactly one
\* signal, detection_completed or error_occurred.
C27_Requests ==
    [][/\ (workers_running' > workers_running)
            => (detection_worker # "Running" /\ loader_cloud # NoCloud)
       /\ (status_message' = "AlreadyRunning" /\ status_message # "AlreadyRunning")
            => /\ detection_worker = "Running"
               /\ UNCHANGED <<detection_worker, workers_running, signals,
                              detection_params>>
       /\ (status_message' = "LoadFirst" /\ status_message # "LoadFirst")
            => /\ loader_cloud = NoCloud
               /\ UNCHANGED <<detection_worker, workers_running, signals,
                              detection_params>>]_vars

C27_OneSignal ==
    /\ Len(signals) = 1
    /\ signals[1] \in {"detection_completed", "error_occurred"}

C28_PlanesOf(pts) ==
    {IF outcome = SegmentPlaneRaises THEN NoPlane ELSE outcome :
        outcome \in SegmentPlaneOutcomes(pts)}

C28_StablePointSet ==
    stage = "Filtered" =>
        \E plane \in C28_PlanesOf(points), params \in ClassifyParams :
            /\ above_ground_indices = FilterByHeight(points, plane, params).above
            /\ ground_indices = FilterByHeight(points, plane, params).ground

\* C29: the visualizer's points, colours and original colours always have
\* the same length; delete_selected_points with a non-empty selection of k
\* positions of the cloud removes the points at exactly these positions,
\* returns k and leaves the selection empty; paste_points of m points
\* leaves the points there were and appends m.
C29_SameLength ==
    /\ Len(viz_point_cloud.colors) = Len(viz_point_cloud.points)
    /\ Len(original_colors) = Len(viz_point_cloud.points)

C29_KeptPosition(sel, i) ==
    CHOOSE j \in 1..Len(viz_point_cloud.points) :
        /\ j \notin sel
        /\ Cardinality({m \in 1..j : m \notin sel}) = i

C29_DeleteStep ==
    ( /\ last_call'.op = "delete_selected_points"
      /\ viz_point_cloud # NoVizCloud
      /\ selected_indices # {}
      /\ selected_indices \subseteq 1..Len(viz_point_cloud.points) )
    => /\ last_call'.value = Cardinality(selected_indices)
       /\ selected_indices' = {}
       /\ Len(viz_point_cloud'.points)
            = Len(viz_point_cloud.points) - Cardinality(selected_indices)
       /\ \A i \in 1..Len(viz_point_cloud'.points) :
             viz_point_cloud'.points[i]
               = viz_point_cloud.points[C29_KeptPosition(selected_indices, i)]

C29_PasteStep ==
    (last_call'.op = "paste_points" /\ viz_point_cloud # NoVizCloud)
    => LET m == Len(last_call'.args[1])
       IN  /\ Len(viz_point_cloud'.points) = Len(viz_point_cloud.points) + m
           /\ SubSeq(viz_point_cloud'.points, 1, Len(viz_point_cloud.points))
                = viz_point_cloud.points

C29_Editing ==
    /\ []C29_SameLength
    /\ [][C29_DeleteStep /\ C29_PasteStep]_vars

\* C29 witness: delete_selected_points has returned 2 and left two of the
\* four points of a cloud that a paste had extended.
C29_Witness ==
    /\ last_call.op = "delete_selected_points"
    /\ last_call.value = 2
    /\ Len(viz_point_cloud.points) = 2
    /\ selected_indices = {}

\* C30: the delete key with a non-empty selection removes the selected
\* points and then calls each points_deleted callback once with the list of
\* the deleted indices, as many as points were removed; with an empty
\* selection it removes nothing and calls nothing.
C30_DeleteKey ==
    [][last_call'.op = "_on_delete_key" =>
         IF selected_indices = {}
         THEN /\ viz_point_cloud' = viz_point_cloud
              /\ callback_log' = <<>>
         ELSE /\ Len(viz_point_cloud'.points)
                   = Len(viz_point_cloud.points) - Cardinality(selected_indices)
              /\ Len(callback_log') = Len(callbacks)
              /\ \A j \in DOMAIN callback_log' :
                    /\ callback_log'[j].callback = callbacks[j]
                    /\ Range(callback_log'[j].indices) = selected_indices
                    /\ Len(callback_log'[j].indices)
                         = Len(viz_point_cloud.points) - Len(viz_point_cloud'.points)
    ]_vars

====
